---- MODULE Spec2Model ----
(***************************************************************************)
(* Time-in-zone tracking of examples/time_in_zone/ultralytics_webcam.py.   *)
(*                                                                         *)
(* The state is the one of main(): the two webcam handles, the zone list,  *)
(* one Timer per zone (tracker_id2start_time), the detections of the frame *)
(* being processed and the position in the frame loop.  The wall clock     *)
(* that Timer.update_with_detections reads with datetime.now() is part of  *)
(* the environment: a reading can be later than, equal to or (the system   *)
(* time was set back) earlier than the reading before it.                  *)
(*                                                                         *)
(* Units: a datetime is a count of microseconds; a duration returned by    *)
(* total_seconds() is written as its numerator over MicrosPerSecond (the   *)
(* float 2.5 is 2500000).                                                  *)
(***************************************************************************)
EXTENDS Integers, Sequences, FiniteSets, TLC

\* ------------------------------------------------------------------ bounds
MaxDetections == 2
MaxClockTicks == 2

\* ------------------------------------------------------- program constants
MicrosPerSecond == 1000000
PersonClassId == 0
StopKey == 113

\* ------------------------------------------------------------ input spaces
\* tracker ids a detection can carry: a negative one and a valid one
TrackerIds == {-1, 0}
ClassIds == {PersonClassId, 2}
ClockQuantum == MicrosPerSecond \div 2
ClockReadings == {k * ClockQuantum : k \in 0..MaxClockTicks}
Keys == {StopKey, 255}

Pt(x, y) == <<x, y>>
\* anchors of the boxes of a frame: inside the left zone only, and on the
\* right edge of the left zone, which is a vertex of the right zone
Anchors == {Pt(1, 1), Pt(2, 1)}
\* the "polygons" list of the configuration file: two rectangles, an empty
\* list, and a list whose one polygon has two vertices
ZoneConfigs ==
  { << <<Pt(0, 0), Pt(2, 0), Pt(2, 2), Pt(0, 2)>>,
       <<Pt(2, 1), Pt(4, 1), Pt(4, 3), Pt(2, 3)>> >>,
    <<>>,
    << <<Pt(0, 0), Pt(2, 0)>> >> }

Detection == [tracker_id : TrackerIds, class_id : ClassIds, anchor : Anchors]
\* what a Timer driven on its own is called with: it reads tracker_id only
TimerDetection == [tracker_id : TrackerIds, class_id : {2}, anchor : {Pt(1, 1)}]

SeqsUpTo(S, n) == UNION {[1..k -> S] : k \in 0..n}

EmptyMap == [x \in {} |-> 0]
NoCall == [zone |-> -1, seq |-> 0, now |-> 0, input |-> <<>>, out |-> <<>>,
           raised |-> FALSE]

VARIABLES
  pc,          \* position in main(): "start", "next_frame", "zones", "done", "error";
               \* "timer" when a Timer is driven on its own
  polygons,    \* the parsed configuration, one vertex list per zone
  timers,      \* timers[i]: tracker_id2start_time of the Timer of zone i
  clock,       \* the latest reading datetime.now() returned
  cap1,        \* webcam handle of the generator of line 145
  cap2,        \* webcam handle of the generator of line 166
  detections,  \* tracked detections of the frame being processed
  zi,          \* index i of the zone loop of line 196
  results,     \* history: the Timer calls of the frame being processed, one
               \* per zone visited so far
  lastCall,    \* history: the latest Timer.update_with_detections call
  firstSeen,   \* history: per zone, clock of the first call that had the id
  inside,      \* history: per zone, the ids that were inside it in some frame
  lag,         \* history: per zone, frames fetched minus calls of its Timer
  hist         \* history: summary of the calls of a Timer driven on its own

vars == <<pc, polygons, timers, clock, cap1, cap2, detections, zi, results,
          lastCall, firstSeen, inside, lag, hist>>

\* ------------------------------------------------------------ Timer (76-110)
\* current_time - start_time: a timedelta, normalised so that
\* 0 <= microseconds < 10^6 (days are folded into seconds)
TimeDelta(a, b) ==
  [seconds |-> (a - b) \div MicrosPerSecond,
   microseconds |-> (a - b) % MicrosPerSecond]

TotalSecondsTruncated(td) == td.seconds * MicrosPerSecond

\* timedelta.total_seconds(), as a numerator over MicrosPerSecond
TotalSeconds(td) == td.seconds * MicrosPerSecond + td.microseconds

InsertAlways(map, id, now) ==
  [x \in DOMAIN map \cup {id} |-> IF x = id THEN now ELSE map[x]]

\* lines 102-103: lazy insert on first sight
InsertIfAbsent(map, id, now) ==
  IF id \notin DOMAIN map
    THEN [x \in DOMAIN map \cup {id} |-> IF x = id THEN now ELSE map[x]]
    ELSE map

\* the loop of lines 101-107 from position k on; st = [map, times]
RECURSIVE TimerLoop(_, _, _, _)
TimerLoop(st, ids, now, k) ==
  IF k > Len(ids) THEN st
  ELSE LET map2 == InsertIfAbsent(st.map, ids[k], now)
           start_time == map2[ids[k]]
           time_duration == TotalSeconds(TimeDelta(now, start_time))
       IN TimerLoop([map |-> map2, times |-> Append(st.times, time_duration)],
                    ids, now, k + 1)

TrackerIdsOf(dets) == [k \in 1..Len(dets) |-> dets[k].tracker_id]

WithTimesReversed(dets, times) ==
  [k \in 1..Len(dets) |->
     [tracker_id |-> dets[k].tracker_id, class_id |-> dets[k].class_id,
      anchor |-> dets[k].anchor, time |-> times[Len(dets) + 1 - k]]]

\* detections['time'] = np.array(times): entry k gets times[k]
WithTimes(dets, times) ==
  [k \in 1..Len(dets) |->
     [tracker_id |-> dets[k].tracker_id, class_id |-> dets[k].class_id,
      anchor |-> dets[k].anchor, time |-> times[k]]]

UpdatePurging(map, dets, now) ==
  LET st == TimerLoop([map |-> map, times |-> <<>>], TrackerIdsOf(dets), now, 1)
      present == {dets[k].tracker_id : k \in 1..Len(dets)}
  IN [map |-> [x \in DOMAIN st.map \cap present |-> st.map[x]],
      out |-> WithTimes(dets, st.times)]

UpdateRefreshing(map, dets, now) ==
  LET st == TimerLoop([map |-> map, times |-> <<>>], TrackerIdsOf(dets), now, 1)
      present == {dets[k].tracker_id : k \in 1..Len(dets)}
  IN [map |-> [x \in DOMAIN st.map |-> IF x \in present THEN st.map[x] ELSE now],
      out |-> WithTimes(dets, st.times)]

\* Timer.update_with_detections with current_time = now
UpdateWithDetections(map, dets, now) ==
  LET st == TimerLoop([map |-> map, times |-> <<>>], TrackerIdsOf(dets), now, 1)
  IN [map |-> st.map, out |-> WithTimes(dets, st.times)]

\* -------------------------------------------------------------- zones (159-204)
MinOf(S) == CHOOSE m \in S : \A x \in S : m <= x
MaxOf(S) == CHOOSE m \in S : \A x \in S : m >= x

InPolygonStrict(polygon, p) ==
  LET xs == {polygon[k][1] : k \in 1..Len(polygon)}
      ys == {polygon[k][2] : k \in 1..Len(polygon)}
  IN /\ MinOf(xs) < p[1] /\ p[1] < MaxOf(xs)
     /\ MinOf(ys) < p[2] /\ p[2] < MaxOf(ys)

\* the mask of sv.PolygonZone for the axis-aligned rectangles of ZoneConfigs:
\* every pixel of the filled polygon, its outline included
InPolygon(polygon, p) ==
  LET xs == {polygon[k][1] : k \in 1..Len(polygon)}
      ys == {polygon[k][2] : k \in 1..Len(polygon)}
  IN /\ MinOf(xs) <= p[1] /\ p[1] <= MaxOf(xs)
     /\ MinOf(ys) <= p[2] /\ p[2] <= MaxOf(ys)

\* zone.trigger(detections): one flag per detection
ZoneTrigger(polygon, dets) ==
  [k \in 1..Len(dets) |-> InPolygon(polygon, dets[k].anchor)]

\* detections[mask]: the entries whose flag is set, in order
RECURSIVE SelectFrom(_, _, _)
SelectFrom(dets, mask, k) ==
  IF k > Len(dets) THEN <<>>
  ELSE IF mask[k] THEN <<dets[k]>> \o SelectFrom(dets, mask, k + 1)
       ELSE SelectFrom(dets, mask, k + 1)

SelectAll(dets, mask) == dets

Select(dets, mask) == SelectFrom(dets, mask, 1)

\* line 182: detections[detections.class_id != 0]
RemovePersons(dets) ==
  Select(dets, [k \in 1..Len(dets) |-> dets[k].class_id # PersonClassId])

\* lines 171-183: what can reach the zone loop for one frame, the tracked
\* detections that are left once the persons are removed
TrackedFrames ==
  {RemovePersons(raw) : raw \in SeqsUpTo(Detection, MaxDetections)}

NumZones == Len(polygons)
ZoneIdx == 0..(NumZones - 1)

\* sv.PolygonZone(polygon, ...): a polygon needs three vertices
PolygonZoneOk(polygon) == Len(polygon) >= 3

EnumerateCrossed(zs) == [k \in 1..Len(zs) |-> <<Len(zs) - k, zs[k]>>]

\* enumerate(zones) of line 196: the pairs (i, zone) in list order
Enumerate(zs) == [k \in 1..Len(zs) |-> <<k - 1, zs[k]>>]

ZoneLoopLeftEarly(i, n) == i >= 1 \/ i = n

\* the zone loop of lines 196-225 is over: line 227 comes after it
ZoneLoopOver(i, n) == i = n

SetTimerShared(ts, i, map) == [z \in DOMAIN ts |-> map]

\* timers[i] is its own Timer object: an update writes timers[i] only
SetTimer(ts, i, map) == [ts EXCEPT ![i] = map]

\* ------------------------------------------------------------ history
IdSet(dets) == {dets[k].tracker_id : k \in 1..Len(dets)}

\* what one more call of a Timer driven on its own adds to the summary of
\* its calls: the clock of the first call, whether the clock readings of the
\* calls went strictly up, the ids that were in every call, and the ids that
\* were in a call and then missing from a later one
HistAfter(h, prev, dets, now) ==
  [called |-> TRUE,
   first |-> IF h.called THEN h.first ELSE now,
   mono |-> h.mono /\ (h.called => now > prev),
   always |-> IF h.called THEN h.always \cap IdSet(dets) ELSE IdSet(dets),
   seen |-> h.seen \cup IdSet(dets),
   gapped |-> h.gapped \cup (h.seen \ IdSet(dets))]

NoHist ==
  [called |-> FALSE, first |-> 0, mono |-> TRUE, always |-> {}, seen |-> {},
   gapped |-> {}]

FirstSeenAfter(fs, dets, now) ==
  [x \in DOMAIN fs \cup IdSet(dets) |-> IF x \in DOMAIN fs THEN fs[x] ELSE now]

\* ------------------------------------------------------------------ state
Init ==
  /\ pc = "start"
  /\ polygons \in ZoneConfigs
  /\ timers = EmptyMap
  /\ clock = 0
  /\ cap1 = "none"
  /\ cap2 = "none"
  /\ results = <<>>
  /\ detections = <<>>
  /\ zi = 0
  /\ lastCall = NoCall
  /\ firstSeen = EmptyMap
  /\ inside = EmptyMap
  /\ lag = EmptyMap
  /\ hist = NoHist

\* lines 142-164: the first generator is asked for one frame (145-147), then
\* the zones and one Timer per zone are built
Startup ==
  /\ pc = "start"
  /\ \/ \* line 128-129: the webcam does not open
        /\ pc' = "error"
        /\ UNCHANGED <<cap1, timers, firstSeen, inside, lag>>
     \/ \* lines 132-138: the first read fails, next() raises StopIteration
        /\ pc' = "error"
        /\ cap1' = "released"
        /\ UNCHANGED <<timers, firstSeen, inside, lag>>
     \/ \* lines 159-163: a zone cannot be built from its polygon
        /\ \E k \in 1..Len(polygons) : ~PolygonZoneOk(polygons[k])
        /\ pc' = "error"
        /\ cap1' = "open"
        /\ UNCHANGED <<timers, firstSeen, inside, lag>>
     \/ \* the generator stays suspended at its yield with the webcam open
        /\ \A k \in 1..Len(polygons) : PolygonZoneOk(polygons[k])
        /\ pc' = "next_frame"
        /\ cap1' = "open"
        /\ timers' = [z \in ZoneIdx |-> EmptyMap]
        /\ firstSeen' = [z \in ZoneIdx |-> EmptyMap]
        /\ inside' = [z \in ZoneIdx |-> {}]
        /\ lag' = [z \in ZoneIdx |-> 0]
  /\ UNCHANGED <<polygons, clock, cap2, detections, zi, results, lastCall, hist>>

\* line 166 with lines 126-138, then lines 168-183: fetch the next frame and
\* the tracked detections of it
NextFrame ==
  /\ pc = "next_frame"
  /\ \/ \* line 128-129: first iteration, the webcam does not open
        /\ cap2 = "none"
        /\ pc' = "error"
        /\ UNCHANGED <<cap2, detections, zi, lag>>
     \/ \* cap.read() succeeds; model, filters and tracker give the detections
        /\ detections' \in TrackedFrames
        /\ cap2' = "open"
        /\ zi' = 0
        /\ pc' = "zones"
        /\ lag' = [z \in DOMAIN lag |-> IF lag[z] < 2 THEN lag[z] + 1 ELSE 2]
     \/ \* cap.read() fails: break, cap.release(), the for loop ends (230)
        /\ cap2' = "released"
        /\ pc' = "done"
        /\ UNCHANGED <<detections, zi, lag>>
  /\ UNCHANGED <<polygons, timers, clock, cap1, results, lastCall, firstSeen,
                 inside, hist>>

\* one call timers[z].update_with_detections(dets); line 98 reads the wall
\* clock, which gives any reading: later than the last one, the same one
\* (coarse clock), or an earlier one (the system time was set back)
CallTimer(z, dets) ==
  \E now \in ClockReadings :
    LET r == UpdateWithDetections(timers[z], dets, now)
    IN /\ clock' = now
       /\ timers' = SetTimer(timers, z, r.map)
       /\ lastCall' = [zone |-> z, seq |-> 1 - lastCall.seq, now |-> now,
                       input |-> dets, out |-> r.out, raised |-> FALSE]
       /\ firstSeen' = [firstSeen EXCEPT
                          ![z] = FirstSeenAfter(firstSeen[z], dets, now)]

\* lines 196-225 for the next pair (i, zone): the detections inside the zone
\* go to timers[i]
ZoneStep ==
  /\ pc = "zones"
  /\ zi < NumZones
  /\ LET i == Enumerate(polygons)[zi + 1][1]
         zone == Enumerate(polygons)[zi + 1][2]
     IN /\ CallTimer(i, Select(detections, ZoneTrigger(zone, detections)))
        /\ lag' = [lag EXCEPT ![i] = IF @ > -1 THEN @ - 1 ELSE -1]
  /\ inside' = [inside EXCEPT ![zi] = @ \cup
                  {detections[k].tracker_id : k \in
                     {j \in 1..Len(detections) :
                        InPolygon(polygons[zi + 1], detections[j].anchor)}}]
  /\ results' = Append(results, lastCall')
  /\ zi' = zi + 1
  /\ UNCHANGED <<pc, polygons, cap1, cap2, detections, hist>>

\* lines 227-230: show the frame, stop on 'q'; the per-zone results of the
\* frame are gone once it is shown
ShowFrame ==
  /\ pc = "zones"
  /\ ZoneLoopOver(zi, NumZones)
  /\ \E key \in Keys :
       pc' = IF key = StopKey THEN "done" ELSE "next_frame"
  /\ results' = <<>>
  /\ lastCall' = NoCall
  /\ UNCHANGED <<polygons, timers, clock, cap1, cap2, detections, zi,
                 firstSeen, inside, lag, hist>>

Next ==
  \/ Startup
  \/ NextFrame
  \/ ZoneStep
  \/ ShowFrame

Spec == Init /\ [][Next]_vars

\* ---------------------------------------------- one Timer driven on its own
\* Timer() (lines 84-85), before any call
TimerInit ==
  /\ pc = "timer"
  /\ polygons = <<>>
  /\ timers = [z \in {0} |-> EmptyMap]
  /\ clock = 0
  /\ cap1 = "none"
  /\ cap2 = "none"
  /\ results = <<>>
  /\ detections = <<>>
  /\ zi = 0
  /\ lastCall = NoCall
  /\ firstSeen = [z \in {0} |-> EmptyMap]
  /\ inside = EmptyMap
  /\ lag = EmptyMap
  /\ hist = NoHist

\* update_with_detections (lines 87-110) on any detections with tracker ids
TimerCall ==
  /\ pc = "timer"
  /\ \E dets \in SeqsUpTo(TimerDetection, MaxDetections) :
       /\ CallTimer(0, dets)
       /\ hist' = HistAfter(hist, clock, dets, clock')
  /\ UNCHANGED <<pc, polygons, cap1, cap2, detections, zi, results, inside,
                 lag>>

TimerNext == TimerCall

TimerSpec == TimerInit /\ [][TimerNext]_vars

TypeOK ==
  /\ pc \in {"start", "next_frame", "zones", "done", "error", "timer"}
  /\ clock \in ClockReadings
  /\ \A z \in DOMAIN timers :
       /\ DOMAIN timers[z] \subseteq TrackerIds
       /\ \A x \in DOMAIN timers[z] : timers[z][x] \in ClockReadings

\* ------------------------------------------------------------- claims
\* a step that is one Timer.update_with_detections call
CallStep == lastCall'.zone # -1 /\ lastCall' # lastCall

Called == lastCall.zone # -1

\* C1: the start timestamp a timer holds for an identity is the clock reading
\* of the first call of that timer whose input had the identity, and it stays
\* that value whatever calls follow.
C1_StartSetOnce ==
  \A z \in DOMAIN timers : timers[z] = firstSeen[z]

\* an identity is in a call whose clock reading is not its start timestamp
C1_Witness ==
  /\ Called
  /\ \E id \in IdSet(lastCall.input) :
       /\ timers[lastCall.zone][id] # lastCall.now
       /\ timers[lastCall.zone][id] = firstSeen[lastCall.zone][id]

\* C2: a call at clock reading now returns, for each identity of its input, 0
\* if the map did not hold the identity before the call (and the map then
\* holds start = now for it), and now minus the start the map held before the
\* call otherwise.
C2_ElapsedPerIdentity ==
  [][CallStep =>
       LET c == lastCall'
           before == timers[c.zone]
       IN /\ Len(c.out) = Len(c.input)
          /\ \A k \in 1..Len(c.input) :
               LET id == c.input[k].tracker_id
               IN IF id \notin DOMAIN before
                    THEN c.out[k].time = 0 /\ timers'[c.zone][id] = c.now
                    ELSE c.out[k].time = c.now - before[id]]_vars

\* one call returned 0 for an identity it inserted and a positive duration
\* for an identity the map already held
C2_Witness ==
  /\ Called
  /\ \E j, k \in 1..Len(lastCall.out) :
       /\ lastCall.out[j].time = 0
       /\ timers[lastCall.zone][lastCall.out[j].tracker_id] = lastCall.now
       /\ lastCall.out[k].time > 0

\* C3: an identity that was in the input at t0, then missing from a later
\* call, and is in the input again at t > t0 gets elapsed t - t0: the gap
\* does not reset the timer.
C3_NoResetOnGap ==
  Called =>
    \A k \in 1..Len(lastCall.out) :
      LET id == lastCall.out[k].tracker_id
      IN (id \in hist.gapped /\ lastCall.now > firstSeen[lastCall.zone][id])
           => lastCall.out[k].time = lastCall.now - firstSeen[lastCall.zone][id]

\* an identity is back after a gap, with a positive elapsed value
C3_Witness ==
  /\ Called
  /\ \E k \in 1..Len(lastCall.out) :
       /\ lastCall.out[k].tracker_id \in hist.gapped
       /\ lastCall.out[k].time > 0

\* C4: for an identity that was in the input of every call of a timer, made
\* at strictly increasing clock readings t1 < ... < tn, call i returns
\* t_i - t_1, and no less than the call before it returned.
C4_Monotone ==
  [][CallStep =>
       \A k \in 1..Len(lastCall'.out) :
         LET id == lastCall'.out[k].tracker_id
         IN (id \in hist'.always /\ hist'.mono) =>
              /\ lastCall'.out[k].time = lastCall'.now - hist'.first
              /\ \A j \in 1..Len(lastCall.out) :
                   lastCall.out[j].tracker_id = id =>
                     lastCall.out[j].time <= lastCall'.out[k].time]_vars

\* an identity was in every call, the readings went up, and two quanta have
\* passed since the first call
C4_Witness ==
  /\ Called
  /\ hist.mono
  /\ \E k \in 1..Len(lastCall.out) :
       /\ lastCall.out[k].tracker_id \in hist.always
       /\ lastCall.out[k].time = 2 * ClockQuantum
       /\ lastCall.now = hist.first + 2 * ClockQuantum

\* C5: a call of the timer of one zone changes the timer of no other zone,
\* and what it returns for an identity is the clock reading minus the reading
\* at which the identity was first inside that same zone.
C5_ZonesIndependent ==
  [][CallStep =>
       LET c == lastCall'
       IN /\ \A z \in DOMAIN timers : z # c.zone => timers'[z] = timers[z]
          /\ \A k \in 1..Len(c.out) :
               c.out[k].time = c.now - firstSeen'[c.zone][c.out[k].tracker_id]]_vars

\* one frame in which an identity that entered the two zones at different
\* readings gets a positive elapsed value from each timer
C5_Witness ==
  /\ Len(results) = 2
  /\ \E j \in 1..Len(results[1].out), k \in 1..Len(results[2].out) :
       LET id == results[1].out[j].tracker_id
       IN /\ results[2].out[k].tracker_id = id
          /\ firstSeen[0][id] # firstSeen[1][id]
          /\ results[1].out[j].time > 0
          /\ results[2].out[k].time > 0
          /\ results[1].out[j].time # results[2].out[k].time

\* C6: every elapsed value a timer call returns is >= 0.
C6_ElapsedNonNegative ==
  \A k \in 1..Len(lastCall.out) : lastCall.out[k].time >= 0

\* C7: a call leaves every map entry whose identity is not in its input as it
\* was: still there, with the same start timestamp.
C7_AbsentUntouched ==
  [][CallStep =>
       LET c == lastCall'
       IN \A id \in DOMAIN timers[c.zone] \ IdSet(c.input) :
            /\ id \in DOMAIN timers'[c.zone]
            /\ timers'[c.zone][id] = timers[c.zone][id]]_vars

\* a call at a later reading, with an input, that left out an identity the
\* map holds
C7_Witness ==
  /\ Called
  /\ lastCall.input # <<>>
  /\ \E id \in DOMAIN timers[lastCall.zone] \ IdSet(lastCall.input) :
       timers[lastCall.zone][id] < lastCall.now

\* C8: the set of identities a timer holds never loses a member, so the size
\* of the map never goes down.
C8_NoPurge ==
  [][\A z \in DOMAIN timers :
       /\ z \in DOMAIN timers'
       /\ DOMAIN timers[z] \subseteq DOMAIN timers'[z]
       /\ Cardinality(DOMAIN timers[z]) <= Cardinality(DOMAIN timers'[z])]_vars

\* the map holds every identity although the latest call had none of them
C8_Witness ==
  /\ Called
  /\ lastCall.input = <<>>
  /\ DOMAIN timers[lastCall.zone] = TrackerIds

\* C9: the output of a call matches its input position by position (same
\* length, same order) and no identity is twice in the output.
C9_OutputMatchesInput ==
  /\ Len(lastCall.out) = Len(lastCall.input)
  /\ \A k \in 1..Len(lastCall.out) :
       /\ lastCall.out[k].tracker_id = lastCall.input[k].tracker_id
       /\ lastCall.out[k].class_id = lastCall.input[k].class_id
  /\ \A j, k \in 1..Len(lastCall.out) :
       lastCall.out[j].tracker_id = lastCall.out[k].tracker_id => j = k

\* an input breaks the contract: an identity twice, or a negative identity
ContractViolation(dets) ==
  \/ \E k \in 1..Len(dets) : dets[k].tracker_id < 0
  \/ \E j, k \in 1..Len(dets) : j # k /\ dets[j].tracker_id = dets[k].tracker_id

\* C10: a call whose input has a duplicate or a negative identity is rejected
\* with an error, and the map is as it was before the call.
C10_ViolationRejected ==
  [][(CallStep /\ ContractViolation(lastCall'.input)) =>
       (lastCall'.raised /\ timers' = timers)]_vars

\* the frame loop is over: the for loop ended or an exception left main()
Exited == pc \in {"done", "error"}

\* the detections of the current frame whose anchor is on or inside a polygon
InZone(polygon) ==
  SelectSeq(detections, LAMBDA d : InPolygon(polygon, d.anchor))

\* C11: a frame with no tracked object gives an empty result for every zone,
\* raises nothing, and leaves every timer map as it was.
C11_EmptyFrame ==
  [][(CallStep /\ detections = <<>>) =>
       /\ lastCall'.out = <<>>
       /\ ~lastCall'.raised
       /\ pc' # "error"
       /\ timers' = timers]_vars

\* every zone was visited for an empty frame, with timers that hold ids
C11_Witness ==
  /\ pc = "zones"
  /\ detections = <<>>
  /\ NumZones = 2
  /\ Len(results) = NumZones
  /\ \A k \in 1..Len(results) : results[k].out = <<>>
  /\ \A z \in DOMAIN timers : timers[z] # EmptyMap

\* C12: once the frame loop is over (the source ran out, or the stop key was
\* pressed), no webcam handle the run opened is still open: each one was
\* released.
C12_HandlesReleased ==
  pc = "done" => (cap1 # "open" /\ cap2 # "open")

\* a polygon list is a configuration error: it is empty, or one of its
\* polygons has fewer than three vertices
ConfigError(ps) ==
  \/ Len(ps) = 0
  \/ \E k \in 1..Len(ps) : Len(ps[k]) < 3

\* C13: with a configuration error the run fails at startup: it never gets
\* to the frame loop, and no timer is ever called.
C13_ConfigFailsFast ==
  ConfigError(polygons) =>
    /\ pc \in {"start", "error"}
    /\ lastCall = NoCall

\* p is on the segment from a to b
OnSegment(a, b, p) ==
  /\ (b[1] - a[1]) * (p[2] - a[2]) = (b[2] - a[2]) * (p[1] - a[1])
  /\ MinOf({a[1], b[1]}) <= p[1] /\ p[1] <= MaxOf({a[1], b[1]})
  /\ MinOf({a[2], b[2]}) <= p[2] /\ p[2] <= MaxOf({a[2], b[2]})

\* p is on an edge or a vertex of the polygon
OnBoundary(polygon, p) ==
  \E k \in 1..Len(polygon) :
    OnSegment(polygon[k], polygon[(k % Len(polygon)) + 1], p)

\* C14: an object whose anchor is on an edge or a vertex of a zone polygon
\* is in the zone: it is in what the timer of that zone was called with.
C14_BoundaryInclusive ==
  \A k \in 1..Len(results) :
    \A j \in 1..Len(detections) :
      OnBoundary(polygons[k], detections[j].anchor) =>
        \E m \in 1..Len(results[k].input) : results[k].input[m] = detections[j]

\* one object is on an edge of the left zone and on a vertex of the right
\* zone, and both timers were called with it
C14_Witness ==
  /\ Len(results) = 2
  /\ \E j \in 1..Len(detections) :
       /\ OnBoundary(polygons[1], detections[j].anchor)
       /\ detections[j].anchor = polygons[2][1]
       /\ \E m \in 1..Len(results[1].out) :
            results[1].out[m].anchor = detections[j].anchor
       /\ \E m \in 1..Len(results[2].out) :
            results[2].out[m].anchor = detections[j].anchor

\* C15: all timer calls of one frame use the same clock reading.
C15_OneReadingPerFrame ==
  \A j, k \in 1..Len(results) : results[j].now = results[k].now

\* C16: in a frame the zones are visited in configuration order, call k of
\* the frame is on timers[k - 1], each timer is called once, and with the
\* ids of the detections inside its own zone.
C16_ZonesInOrder ==
  /\ pc = "zones" => Len(results) = zi
  /\ \A k \in 1..Len(results) :
       /\ results[k].zone = k - 1
       /\ TrackerIdsOf(results[k].input) = TrackerIdsOf(InZone(polygons[k]))

\* both zones were visited, and they got different inputs
C16_Witness ==
  /\ pc = "zones"
  /\ zi = 2
  /\ Len(results) = 2
  /\ results[1].input # <<>>
  /\ results[2].input # <<>>
  /\ TrackerIdsOf(results[1].input) # TrackerIdsOf(results[2].input)

\* C17: the result of a zone has the objects of the frame inside the zone,
\* in frame order, each one with the elapsed value of its own identity.
C17_ResultPairsObjects ==
  \A k \in 1..Len(results) :
    LET in_zone == InZone(polygons[k])
        out == results[k].out
    IN /\ Len(out) = Len(in_zone)
       /\ \A m \in 1..Len(out) :
            /\ out[m].tracker_id = in_zone[m].tracker_id
            /\ out[m].class_id = in_zone[m].class_id
            /\ out[m].anchor = in_zone[m].anchor
            /\ out[m].time =
                 results[k].now - timers[results[k].zone][out[m].tracker_id]

\* a result with two objects that have different elapsed values, from a
\* frame that had an object outside the zone
C17_Witness ==
  \E k \in 1..Len(results) :
    /\ Len(results[k].out) = 2
    /\ results[k].out[1].time # results[k].out[2].time
    /\ \E z \in 1..Len(results) : Len(results[z].out) < Len(detections)

\* C18: when the frame loop is over, every timer has been called for every
\* frame that was fetched: no frame is half processed.
C18_NoPartialFrame ==
  Exited => \A z \in DOMAIN lag : lag[z] = 0

\* the loop was left on the stop key after a frame that filled both timers
C18_Witness ==
  /\ pc = "done"
  /\ cap2 = "open"
  /\ NumZones = 2
  /\ \A z \in DOMAIN timers : timers[z] # EmptyMap

\* C19: the ids a timer holds are the ids that were inside its zone in some
\* processed frame; before the first frame every timer is empty.
C19_KeysAreIdsSeenInZone ==
  \A z \in DOMAIN timers : DOMAIN timers[z] = inside[z]

\* an id was tracked inside the left zone and never inside the right one
C19_Witness ==
  /\ NumZones = 2
  /\ pc = "next_frame"
  /\ \E id \in TrackerIds :
       id \in DOMAIN timers[0] /\ id \notin DOMAIN timers[1]
  /\ timers[1] # EmptyMap

====
